---- MODULE Spec2Model ----
(***************************************************************************)
(* Model of load_sample_data.py: the script that seeds the development    *)
(* stack (API database, upstream database, search indices, cache).        *)
(*                                                                         *)
(* The script is one sequential process.  Every external command it runs  *)
(* (a compose_exec script or a just recipe) is one step of the model; the  *)
(* command's outcome is chosen by the environment, and the step includes   *)
(* the script's reaction to it (return, retry, swallow or raise).          *)
(* Text the script computes on (media types, index names, suffixes, error  *)
(* messages, cache commands) is a sequence of one-character strings.       *)
(***************************************************************************)
EXTENDS Integers, Sequences, FiniteSets, TLC

VARIABLES
    pc,                 \* position of the script in __main__ / ingest
    mi,                 \* index into MEDIA_TYPES of the running for-loop
    run,                \* number of the current run of the script
    err,                \* exception that ended the run ("" when none)
    fault,              \* command that failed in the latest step ("" when none)
    actual_providers,   \* __main__: result of get_actual_providers()
    data,               \* ingest: parsed output of the stat recipe
    suffix,             \* ingest: uuid4().hex of the new index
    retries,            \* ingest: retries left
    calls,              \* just recipes invoked by the current ingest() call
    ingested,           \* media types whose ingest() call has returned in this run
    replaced,           \* for each of them, the index stat had reported (<<>>: none)
    cache_cmds,         \* commands sent to the cache service in this run
    sample,             \* the sample CSV files
    migrated,           \* API db: migrations applied
    users,              \* API db: auth users
    template,           \* API db: state of <media_type>_template
    content_provider,   \* API db: rows of content_provider
    next_pk,            \* API db: next primary key of content_provider
    upstream,           \* upstream db: tables and views
    es_alias,           \* search service: index each alias points to
    es_indices,         \* search service: existing indices per media type
    cache               \* cache service: keys present

vars == << pc, mi, run, err, fault, actual_providers, data, suffix, retries,
           calls, ingested, replaced, cache_cmds, sample, migrated, users, template,
           content_provider, next_pk, upstream, es_alias, es_indices, cache >>

-----------------------------------------------------------------------------
(* Bounds *)

\* number of times the script is run against the same environment
MaxRuns == 2

-----------------------------------------------------------------------------
(* Text helpers *)

Range(s) == { s[i] : i \in 1..Len(s) }

\* Python: needle in hay
Contains(hay, needle) ==
    \E i \in 0..(Len(hay) - Len(needle)) :
        SubSeq(hay, i + 1, i + Len(needle)) = needle

\* Python: s.startswith(p)
StartsWith(s, p) == Len(s) >= Len(p) /\ SubSeq(s, 1, Len(p)) = p

\* Python: str.lstrip(chars) removes leading characters that are in chars
RECURSIVE lstrip(_, _)
lstrip(s, chars) ==
    IF s # <<>> /\ Head(s) \in Range(chars) THEN lstrip(Tail(s), chars) ELSE s

-----------------------------------------------------------------------------
(* Constants of the script *)

image == <<"i", "m", "a", "g", "e">>
audio == <<"a", "u", "d", "i", "o">>
MEDIA_TYPES == << image, audio >>
MediaSet == Range(MEDIA_TYPES)

WEB_SERVICE_NAME == "web"
CACHE_SERVICE_NAME == "cache"
UPSTREAM_DB_SERVICE_NAME == "upstream_db"
DB_SERVICE_NAME == "db"

\* keys of the providers dictionary of __main__
providers == { "flickr", "stocksnap", "freesound", "jamendo",
               "wikimedia_audio", "thingiverse" }

\* extra_columns of __main__
extra_columns ==
    [ m \in MediaSet |->
        IF m = image
        THEN { "standardized_popularity", "ingestion_type" }
        ELSE { "standardized_popularity", "ingestion_type", "audio_set" } ]

\* f"{media_type}-{suffix}"
IndexName(media_type, sfx) == media_type \o <<"-">> \o sfx

\* f"{media_type}_template"
TemplateName(media_type) ==
    media_type \o <<"_", "t", "e", "m", "p", "l", "a", "t", "e">>

\* f'relation "{name}" already exists'
AlreadyExists(name) ==
    <<"r", "e", "l", "a", "t", "i", "o", "n", " ", "\"">> \o name \o
    <<"\"", " ", "a", "l", "r", "e", "a", "d", "y", " ", "e", "x", "i", "s", "t", "s">>

\* f":1:sources-{media_type}"
SourcesKey(m) ==
    <<":", "1", ":", "s", "o", "u", "r", "c", "e", "s", "-">> \o m

\* a command that names the key of image whatever the media type
CacheBustCommand_image(m) == <<"d", "e", "l", " ">> \o SourcesKey(image)

\* f"del :1:sources-{media_type}", the text piped to redis-cli
CacheBustCommand(m) == <<"d", "e", "l", " ">> \o SourcesKey(m)

-----------------------------------------------------------------------------
(* The sample files ./sample_data/sample_<media_type>.csv: the columns of  *)
(* the header line and the values of the provider column.                  *)

\* columns of the image and audio tables of the API database
MediaTableColumns == { "id", "identifier", "provider" }
\* those that are NOT NULL and have no default
RequiredColumns == { "identifier" }

GoodSample ==
    [ m \in MediaSet |->
        [ columns  |-> { "identifier", "provider" } \cup extra_columns[m],
          provider |-> IF m = image THEN { "flickr", "stocksnap" }
                                    ELSE { "freesound", "jamendo" } ] ]

SampleFiles ==
    { GoodSample,
      \* header of the image file omits a required column
      [ GoodSample EXCEPT ![image].columns = @ \ { "identifier" } ],
      \* header of the audio file names a column the table does not have
      [ GoodSample EXCEPT ![audio].columns = @ \cup { "bogus" } ],
      \* other providers
      [ GoodSample EXCEPT ![image].provider = { "stocksnap" },
                          ![audio].provider = { "thingiverse" } ],
      \* the image file mentions a provider that __main__ does not list
      [ GoodSample EXCEPT ![image].provider = @ \cup { "met" } ] }

-----------------------------------------------------------------------------
(* psql: a script is run statement by statement with ON_ERROR_STOP=1, each *)
(* statement committed on its own.  cut is the number of statements the    *)
(* environment lets through before the connection or the container fails   *)
(* (the number of statements of the script when it does not).              *)

ConnectionLost == <<"c", "o", "n", "n", "e", "c", "t", "i", "o", "n">>

NoTemplate == [ table |-> FALSE, seq |-> FALSE, dflt |-> FALSE, owned |-> FALSE ]

\* stderr of statement k of the backup script in state t (<<>>: it runs)
BackupError(t, k, media_type) ==
    CASE k = 1 /\ t.table -> AlreadyExists(TemplateName(media_type))
      [] k = 2 /\ t.seq ->
            AlreadyExists(TemplateName(media_type) \o <<"_", "i", "d", "_", "s", "e", "q">>)
      [] k \in {3, 4} /\ ~(t.table /\ t.seq) -> <<"d", "o", "e", "s", " ", "n", "o", "t", " ", "e", "x", "i", "s", "t">>
      [] OTHER -> <<>>

\* effect of statement k of the backup script
BackupStatement(t, k) ==
    CASE k = 1 -> [ t EXCEPT !.table = TRUE ]
      [] k = 2 -> [ t EXCEPT !.seq = TRUE ]
      [] k = 3 -> [ t EXCEPT !.dflt = TRUE ]
      [] k = 4 -> [ t EXCEPT !.owned = TRUE ]

RECURSIVE psql_backup(_, _, _, _)
psql_backup(t, k, cut, media_type) ==
    IF k > 4 THEN [ state |-> t, ok |-> TRUE, stderr |-> <<>> ]
    ELSE IF k > cut THEN [ state |-> t, ok |-> FALSE, stderr |-> ConnectionLost ]
    ELSE IF BackupError(t, k, media_type) # <<>>
    THEN [ state |-> t, ok |-> FALSE, stderr |-> BackupError(t, k, media_type) ]
    ELSE psql_backup(BackupStatement(t, k), k + 1, cut, media_type)

\* a script without the DELETE statement
DeleteProviders_none(rows, identifiers) == rows

\* DELETE FROM content_provider WHERE provider_identifier IN (identifiers)
DeleteProviders(rows, identifiers) ==
    { r \in rows : r.provider_identifier \notin identifiers }

\* INSERT INTO content_provider ... VALUES (now(), identifier, ...), ...
InsertProviders(rows, identifiers, pk, now) ==
    LET ids == CHOOSE f \in [ 1..Cardinality(identifiers) -> identifiers ] :
                   Range(f) = identifiers
    IN  rows \cup { [ pk |-> pk + i - 1, provider_identifier |-> ids[i],
                      created_on |-> now ] : i \in 1..Cardinality(identifiers) }

\* the provider script: DELETE, then INSERT; an empty list is a syntax error
psql_providers(rows, identifiers, pk, now, cut) ==
    IF cut = 0 \/ identifiers = {}
    THEN [ rows |-> rows, pk |-> pk, ok |-> FALSE ]
    ELSE IF cut = 1
    THEN [ rows |-> DeleteProviders(rows, identifiers), pk |-> pk, ok |-> FALSE ]
    ELSE [ rows |-> InsertProviders(DeleteProviders(rows, identifiers),
                                    identifiers, pk, now),
           pk |-> pk + Cardinality(identifiers), ok |-> TRUE ]

-----------------------------------------------------------------------------
(* The upstream database: a set of tables [name, columns, rows], rows     *)
(* counting how many times the sample file has been loaded into the table, *)
(* and the audioset_view view.                                             *)

HasTable(tables, name) == \E t \in tables : t.name = name
TableNamed(tables, name) == CHOOSE t \in tables : t.name = name
DropTable(tables, name) == { t \in tables : t.name # name }

\* f"{media_type}_view"
ViewName(media_type) == media_type \o <<"_", "v", "i", "e", "w">>

content_provider_table ==
    <<"c", "o", "n", "t", "e", "n", "t", "_", "p", "r", "o", "v", "i", "d", "e", "r">>

\* the script with delete_if_exists=False: no DROP TABLE statement is sent
copy_table_upstream_keep(up, name, target_name, src, drop_ok, copy_ok, last_ok) ==
    LET t1 == up.tables
        copied == copy_ok /\ src.exists /\ ~HasTable(t1, name)
        t2 == IF copied
              THEN t1 \cup { [ name |-> name, columns |-> src.columns, rows |-> 0 ] }
              ELSE t1
        renamed == last_ok /\ HasTable(t2, name) /\ ~HasTable(t2, target_name)
        t3 == IF target_name # name /\ renamed
              THEN DropTable(t2, name) \cup
                   { [ TableNamed(t2, name) EXCEPT !.name = target_name ] }
              ELSE t2
        ok == IF target_name # name THEN renamed ELSE last_ok
    IN  [ up    |-> [ tables |-> t3, audioset_view |-> up.audioset_view ],
          ok    |-> ok,
          fault |-> IF ~copied THEN "pg_dump"
                    ELSE IF ~ok THEN "psql"
                    ELSE "" ]

\* copy_table_upstream(name, target_name): one bash script of three
\* commands, run without `set -e`, so that its exit status is the status of
\* the last command alone:
\*   psql: DROP TABLE IF EXISTS target_name CASCADE      (drop_ok)
\*   pg_dump -s -t name | psql                           (copy_ok)
\*   psql: ALTER TABLE name RENAME TO target_name, or an empty script when
\*   the names are equal                                 (last_ok)
\* src is the table of the API database ([exists, columns]); the three
\* booleans say whether the environment lets each command through.
copy_table_upstream(up, name, target_name, src, drop_ok, copy_ok, last_ok) ==
    LET dropped == drop_ok
        t1 == IF dropped THEN DropTable(up.tables, target_name) ELSE up.tables
        v1 == IF dropped /\ target_name = ViewName(audio)
              THEN FALSE ELSE up.audioset_view
        copied == copy_ok /\ src.exists /\ ~HasTable(t1, name)
        t2 == IF copied
              THEN t1 \cup { [ name |-> name, columns |-> src.columns, rows |-> 0 ] }
              ELSE t1
        renamed == last_ok /\ HasTable(t2, name) /\ ~HasTable(t2, target_name)
        t3 == IF target_name # name /\ renamed
              THEN DropTable(t2, name) \cup
                   { [ TableNamed(t2, name) EXCEPT !.name = target_name ] }
              ELSE t2
        ok == IF target_name # name THEN renamed ELSE last_ok
    IN  [ up    |-> [ tables |-> t3, audioset_view |-> v1 ],
          ok    |-> ok,
          fault |-> IF ~dropped THEN "DROP TABLE"
                    ELSE IF ~copied THEN "pg_dump"
                    ELSE IF ~ok THEN "psql"
                    ELSE "" ]

\* the same script run without ON_ERROR_STOP: psql goes on after a failed
\* statement and exits with status 0 when it reaches the end of the script
psql_load_continue(tables, dest_table, extra, columns, cut) ==
    LET t0 == IF HasTable(tables, dest_table)
              THEN TableNamed(tables, dest_table)
              ELSE [ name |-> dest_table, columns |-> {}, rows |-> 0 ]
        add_ok == cut >= 1 /\ HasTable(tables, dest_table) /\ t0.columns \cap extra = {}
        t1 == IF add_ok THEN [ t0 EXCEPT !.columns = @ \cup extra ] ELSE t0
        copy_ok == /\ cut >= 2
                   /\ HasTable(tables, dest_table)
                   /\ columns \subseteq t1.columns
                   /\ (RequiredColumns \cap t1.columns) \subseteq columns
        t2 == IF copy_ok THEN [ t1 EXCEPT !.rows = @ + 1 ] ELSE t1
    IN  [ tables |-> IF HasTable(tables, dest_table)
                     THEN DropTable(tables, dest_table) \cup { t2 }
                     ELSE tables,
          ok     |-> cut >= 2 ]

\* the second script of load_sample_data: ALTER TABLE dest ADD COLUMN ...,
\* then \copy dest (columns) from the sample file, one COPY statement that
\* loads every row or none
psql_load(tables, dest_table, extra, columns, cut) ==
    LET t0 == IF HasTable(tables, dest_table)
              THEN TableNamed(tables, dest_table)
              ELSE [ name |-> dest_table, columns |-> {}, rows |-> 0 ]
        add_ok == cut >= 1 /\ HasTable(tables, dest_table) /\ t0.columns \cap extra = {}
        t1 == IF add_ok THEN [ t0 EXCEPT !.columns = @ \cup extra ] ELSE t0
        copy_ok == /\ add_ok
                   /\ cut >= 2
                   /\ columns \subseteq t1.columns
                   /\ (RequiredColumns \cap t1.columns) \subseteq columns
        t2 == IF copy_ok THEN [ t1 EXCEPT !.rows = @ + 1 ] ELSE t1
    IN  [ tables |-> IF HasTable(tables, dest_table)
                     THEN DropTable(tables, dest_table) \cup { t2 }
                     ELSE tables,
          ok     |-> copy_ok ]

\* the script of create_audioset_view: UPDATE audio_view, DROP VIEW IF
\* EXISTS audioset_view, CREATE VIEW audioset_view
psql_audioset(up, cut) ==
    LET has == /\ HasTable(up.tables, ViewName(audio))
               /\ "audio_set" \in TableNamed(up.tables, ViewName(audio)).columns
        n == IF has THEN cut ELSE 0
    IN  [ up |-> [ up EXCEPT !.audioset_view =
                       IF n >= 3 THEN TRUE ELSE IF n = 2 THEN FALSE ELSE @ ],
          ok |-> n >= 3 ]

-----------------------------------------------------------------------------
(* The search service behind the just recipes, and the cache.              *)

\* no index: the alias does not exist
NoIndex == <<>>

\* output of `just stat media_type`, parsed
StatResponse(alias, media_type) ==
    IF alias[media_type] = NoIndex
    THEN [ exists |-> FALSE, alt_names |-> <<>> ]
    ELSE [ exists |-> TRUE, alt_names |-> IndexName(media_type, alias[media_type]) ]

\* redis-cli: `del key` removes exactly that key
redis_cli(keys, command) ==
    IF StartsWith(command, <<"d", "e", "l", " ">>)
    THEN keys \ { SubSeq(command, 5, Len(command)) }
    ELSE keys

\* a key of the cache that has nothing to do with the sources
OtherKey == <<":", "1", ":", "s", "t", "a", "t", "s">>

\* uuid.uuid4().hex: a value no index of the media type carries yet.  Its
\* first character is a letter or a digit; its last one is the digit of the
\* run, which keeps the values of different runs distinct.
RunDigit(n) == <<"1", "2", "3", "4", "5", "6", "7", "8", "9">>[n]
uuid4_hex(n) == { <<c, RunDigit(n)>> : c \in { "a", "7" } }

\* indices left by an earlier use of the stack
PriorIndices ==
    { [ m \in MediaSet |-> NoIndex ],
      [ m \in MediaSet |-> IF m = image THEN <<"a", "0">> ELSE <<"7", "0">> ],
      [ m \in MediaSet |-> IF m = image THEN <<"7", "0">> ELSE <<"d", "0">> ] }

\* rows of content_provider left by an earlier use of the stack
PriorProviders ==
    { {},
      { [ pk |-> 1, provider_identifier |-> "flickr", created_on |-> 0 ],
        [ pk |-> 2, provider_identifier |-> "flickr", created_on |-> 0 ],
        [ pk |-> 3, provider_identifier |-> "thingiverse", created_on |-> 0 ] } }

-----------------------------------------------------------------------------
(* State *)

NoData == [ exists |-> FALSE, alt_names |-> <<>> ]
EmptyUpstream == [ tables |-> {}, audioset_view |-> FALSE ]

media_type == MEDIA_TYPES[mi]

locals == << actual_providers, data, suffix, retries >>
logs == << calls, ingested, replaced >>
api_db == << migrated, users, template, content_provider, next_pk >>
search == << es_alias, es_indices >>

Init ==
    /\ pc = "run_migrations"
    /\ mi = 1
    /\ run = 1
    /\ err = ""
    /\ fault = ""
    /\ actual_providers = {}
    /\ data = NoData
    /\ suffix = <<>>
    /\ retries = 0
    /\ calls = <<>>
    /\ ingested = <<>>
    /\ replaced = <<>>
    /\ cache_cmds = <<>>
    /\ sample \in SampleFiles
    /\ migrated = FALSE
    /\ users = {}
    /\ template = [ m \in MediaSet |-> NoTemplate ]
    /\ content_provider \in PriorProviders
    /\ next_pk = 4
    /\ upstream = EmptyUpstream
    /\ es_alias \in PriorIndices
    /\ es_indices = [ m \in MediaSet |-> { es_alias[m] } \ { NoIndex } ]
    /\ cache = { SourcesKey(image), SourcesKey(audio), OtherKey }

\* an exception nobody catches ends the run
Raise(exception) ==
    /\ pc' = "failed"
    /\ err' = exception
    /\ mi' = mi

\* the next iteration of `for media_type in MEDIA_TYPES`, or the statement
\* after the loop
NextMedia(again, after) ==
    /\ err' = err
    /\ IF mi < Len(MEDIA_TYPES)
       THEN pc' = again /\ mi' = mi + 1
       ELSE pc' = after /\ mi' = 1

Goto(label) ==
    /\ pc' = label
    /\ err' = err
    /\ mi' = mi

-----------------------------------------------------------------------------
(* API initialisation *)

run_migrations ==
    /\ pc = "run_migrations"
    /\ \E ok \in BOOLEAN :
        /\ migrated' = (migrated \/ ok)
        /\ fault' = IF ok THEN "" ELSE "migrate"
        /\ IF ok THEN Goto("create_users") ELSE Raise("DockerException")
    /\ UNCHANGED << run, locals, logs, cache_cmds, sample, users, template,
                    content_provider, next_pk, upstream, search, cache >>

create_users ==
    /\ pc = "create_users"
    /\ \E ok \in BOOLEAN :
        /\ users' = IF ok THEN users \cup { "deploy", "continuous_integration" }
                          ELSE users
        /\ fault' = IF ok THEN "" ELSE "shell"
        /\ IF ok THEN Goto("backup_table") ELSE Raise("DockerException")
    /\ UNCHANGED << run, locals, logs, cache_cmds, sample, migrated, template,
                    content_provider, next_pk, upstream, search, cache >>

\* a test for the name of the table that is backed up
BackupExists_source(m, stderr) == Contains(stderr, AlreadyExists(m))

\* `if f'relation "{media_type}_template" already exists' in exc.stderr`
BackupExists(m, stderr) == Contains(stderr, AlreadyExists(TemplateName(m)))

backup_table ==
    /\ pc = "backup_table"
    /\ \E cut \in 0..4 :
        LET r == psql_backup(template[media_type], 1, cut, media_type) IN
        /\ template' = [ template EXCEPT ![media_type] = r.state ]
        /\ fault' = IF r.ok THEN ""
                    ELSE IF r.stderr = AlreadyExists(TemplateName(media_type))
                    THEN "relation already exists"
                    ELSE "psql"
        /\ IF r.ok \/ BackupExists(media_type, r.stderr)
           THEN NextMedia("backup_table", "get_actual_providers")
           ELSE Raise("DockerException")
    /\ UNCHANGED << run, locals, logs, cache_cmds, sample, migrated, users,
                    content_provider, next_pk, upstream, search, cache >>

\* a lookup that leaves out the providers the catalog does not list
\* (providers.get) and goes on
get_actual_providers_skip ==
    /\ pc = "get_actual_providers"
    /\ actual_providers' = UNION { sample[m].provider : m \in MediaSet } \cap providers
    /\ fault' = ""
    /\ Goto("load_content_providers")
    /\ UNCHANGED << run, data, suffix, retries, logs, cache_cmds, sample,
                    api_db, upstream, search, cache >>

\* get_actual_providers(), then `[providers[provider] for provider in
\* actual_providers]`, which raises KeyError for an unlisted provider
get_actual_providers ==
    /\ pc = "get_actual_providers"
    /\ actual_providers' = UNION { sample[m].provider : m \in MediaSet }
    /\ fault' = ""
    /\ IF actual_providers' \subseteq providers
       THEN Goto("load_content_providers")
       ELSE Raise("KeyError")
    /\ UNCHANGED << run, data, suffix, retries, logs, cache_cmds, sample,
                    api_db, upstream, search, cache >>

load_content_providers ==
    /\ pc = "load_content_providers"
    /\ \E cut \in 0..2 :
        LET r == psql_providers(content_provider, actual_providers, next_pk, run, cut) IN
        /\ content_provider' = r.rows
        /\ next_pk' = r.pk
        /\ fault' = IF r.ok THEN "" ELSE "psql"
        /\ IF r.ok THEN Goto("copy_table_upstream") ELSE Raise("DockerException")
    /\ UNCHANGED << run, locals, logs, cache_cmds, sample, migrated, users,
                    template, upstream, search, cache >>

-----------------------------------------------------------------------------
(* Upstream initialisation *)

\* copy_table_upstream("content_provider")
copy_content_provider ==
    /\ pc = "copy_table_upstream"
    /\ \E drop_ok, copy_ok, last_ok \in BOOLEAN :
        LET r == copy_table_upstream(upstream, content_provider_table,
                     content_provider_table,
                     [ exists |-> migrated, columns |-> { "provider_identifier" } ],
                     drop_ok, copy_ok, last_ok) IN
        /\ upstream' = r.up
        /\ fault' = r.fault
        /\ IF r.ok
           THEN pc' = "load_sample_data" /\ mi' = 1 /\ err' = err
           ELSE Raise("DockerException")
    /\ UNCHANGED << run, locals, logs, cache_cmds, sample, api_db, search, cache >>

\* load_sample_data, first half: copy_table_upstream(source_table, dest_table)
load_sample_data_copy_table ==
    /\ pc = "load_sample_data"
    /\ \E drop_ok, copy_ok, last_ok \in BOOLEAN :
        LET r == copy_table_upstream(upstream, TemplateName(media_type),
                     ViewName(media_type),
                     [ exists |-> template[media_type].table,
                       columns |-> MediaTableColumns ],
                     drop_ok, copy_ok, last_ok) IN
        /\ upstream' = r.up
        /\ fault' = r.fault
        /\ IF r.ok THEN Goto("load_sample_data_rows") ELSE Raise("DockerException")
    /\ UNCHANGED << run, locals, logs, cache_cmds, sample, api_db, search, cache >>

\* `columns = sample_file.readline().strip()`
HeaderColumns(m) == sample[m].columns

\* load_sample_data, second half: add the extra columns and \copy the file
load_sample_data_rows ==
    /\ pc = "load_sample_data_rows"
    /\ \E cut \in 0..2 :
        LET r == psql_load(upstream.tables, ViewName(media_type),
                           extra_columns[media_type], HeaderColumns(media_type), cut) IN
        /\ upstream' = [ upstream EXCEPT !.tables = r.tables ]
        /\ fault' = IF r.ok THEN "" ELSE "psql"
        /\ IF r.ok
           THEN NextMedia("load_sample_data", "create_audioset_view")
           ELSE Raise("DockerException")
    /\ UNCHANGED << run, locals, logs, cache_cmds, sample, api_db, search, cache >>

create_audioset_view ==
    /\ pc = "create_audioset_view"
    /\ \E cut \in 0..3 :
        LET r == psql_audioset(upstream, cut) IN
        /\ upstream' = r.up
        /\ fault' = IF r.ok THEN "" ELSE "psql"
        /\ IF r.ok
           THEN pc' = "load_test_data" /\ mi' = 1 /\ err' = err
           ELSE Raise("DockerException")
    /\ UNCHANGED << run, locals, logs, cache_cmds, sample, api_db, search, cache >>

-----------------------------------------------------------------------------
(* Data refresh: ingest(media_type) *)

\* run_just(recipe, argv): the call as the log of the ingest call keeps it
JustCall(recipe, argv, ok) == [ recipe |-> recipe, argv |-> argv, ok |-> ok ]

\* a budget of one retry for image
RetryBudget_one(m) == IF m = image THEN 1 ELSE 0

\* the budget of image for every media type
RetryBudget_all(m) == 2

\* a budget that counts attempts where the script counts retries
RetryBudget_attempts(m) == IF m = image THEN 3 ELSE 1

\* `retries = 2 if media_type == "image" else 0`
RetryBudget(m) == IF m = image THEN 2 ELSE 0

\* a handler that leaves the loop instead of repeating it
AfterFailedAttempt_break(left) == IF left = 0 THEN "failed" ELSE "promote"

\* the except clause of the ingestion loop: where the script goes after a
\* failed attempt with the given number of retries left
AfterFailedAttempt(left) == IF left = 0 THEN "failed" ELSE "ingest_upstream"

\* a cleanup that does not look at the stat response
CleanupNeeded_always(d) == TRUE

\* `if data["exists"]`
CleanupNeeded(d) == d.exists

\* `old_suffix = data["alt_names"].lstrip(f"{media_type}-")`
OldSuffix(d, m) == lstrip(d.alt_names, m \o <<"-">>)

\* the end of ingest(): the next media type, or the cache bust
IngestReturns ==
    /\ ingested' = Append(ingested, media_type)
    /\ replaced' = Append(replaced, data.alt_names)
    /\ NextMedia("load_test_data", "cache_bust")

ingest_load_test_data ==
    /\ pc = "load_test_data"
    /\ \E ok \in BOOLEAN :
        /\ calls' = << JustCall("load-test-data", << media_type >>, ok) >>
        /\ fault' = IF ok THEN "" ELSE "load-test-data"
        /\ IF ok THEN Goto("stat") ELSE Raise("CalledProcessError")
    /\ data' = NoData
    /\ suffix' = <<>>
    /\ retries' = 0
    /\ UNCHANGED << run, actual_providers, ingested, replaced, cache_cmds, sample, api_db,
                    upstream, search, cache >>

\* `just stat`, json.loads, uuid4 and the retry budget
ingest_stat ==
    /\ pc = "stat"
    /\ \/ /\ calls' = Append(calls, JustCall("stat", << media_type >>, FALSE))
          /\ fault' = "stat"
          /\ Raise("CalledProcessError")
          /\ UNCHANGED << data, suffix, retries >>
       \/ \E hex \in uuid4_hex(run) :
          /\ calls' = Append(calls, JustCall("stat", << media_type >>, TRUE))
          /\ fault' = ""
          /\ data' = StatResponse(es_alias, media_type)
          /\ suffix' = hex
          /\ retries' = RetryBudget(media_type)
          /\ Goto("ingest_upstream")
    /\ UNCHANGED << run, actual_providers, ingested, replaced, cache_cmds, sample, api_db,
                    upstream, search, cache >>

\* the handler of the ingestion loop
AttemptFailed ==
    /\ pc' = AfterFailedAttempt(retries)
    /\ err' = IF pc' = "failed" THEN "CalledProcessError" ELSE err
    /\ retries' = IF pc' = "failed" THEN retries ELSE retries - 1
    /\ mi' = mi

ingest_upstream ==
    /\ pc = "ingest_upstream"
    /\ \E ok, created \in BOOLEAN :
        /\ ok => created
        /\ calls' = Append(calls,
                        JustCall("ingest-upstream", << media_type, suffix >>, ok))
        /\ es_indices' = IF created
                         THEN [ es_indices EXCEPT ![media_type] = @ \cup { suffix } ]
                         ELSE es_indices
        /\ fault' = IF ok THEN "" ELSE "ingest-upstream"
        /\ IF ok
           THEN Goto("wait_for_index") /\ retries' = retries
           ELSE AttemptFailed
    /\ UNCHANGED << run, actual_providers, data, suffix, ingested, replaced, cache_cmds,
                    sample, api_db, upstream, es_alias, cache >>

ingest_wait_for_index ==
    /\ pc = "wait_for_index"
    /\ \E ok \in BOOLEAN :
        /\ calls' = Append(calls,
                        JustCall("wait-for-index", << IndexName(media_type, suffix) >>, ok))
        /\ fault' = IF ok THEN "" ELSE "wait-for-index"
        /\ IF ok
           THEN Goto("promote") /\ retries' = retries
           ELSE AttemptFailed
    /\ UNCHANGED << run, actual_providers, data, suffix, ingested, replaced, cache_cmds,
                    sample, api_db, upstream, search, cache >>

ingest_promote ==
    /\ pc = "promote"
    /\ \E ok \in BOOLEAN :
        /\ calls' = Append(calls,
                        JustCall("promote", << media_type, suffix, media_type >>, ok))
        /\ es_alias' = IF ok THEN [ es_alias EXCEPT ![media_type] = suffix ]
                             ELSE es_alias
        /\ fault' = IF ok THEN "" ELSE "promote"
        /\ IF ok THEN Goto("wait_for_alias") ELSE Raise("CalledProcessError")
    /\ UNCHANGED << run, locals, ingested, replaced, cache_cmds, sample, api_db, upstream,
                    es_indices, cache >>

ingest_wait_for_alias ==
    /\ pc = "wait_for_alias"
    /\ \E ok \in BOOLEAN :
        /\ calls' = Append(calls, JustCall("wait-for-index", << media_type >>, ok))
        /\ fault' = IF ok THEN "" ELSE "wait-for-index"
        /\ IF ~ok THEN Raise("CalledProcessError") /\ UNCHANGED << ingested, replaced >>
           ELSE IF CleanupNeeded(data) THEN Goto("delete_index") /\ UNCHANGED << ingested, replaced >>
           ELSE IngestReturns
    /\ UNCHANGED << run, locals, cache_cmds, sample, api_db, upstream, search, cache >>

ingest_delete_index ==
    /\ pc = "delete_index"
    /\ \E ok \in BOOLEAN :
        LET old_suffix == OldSuffix(data, media_type) IN
        /\ calls' = Append(calls,
                        JustCall("delete-index", << media_type, old_suffix >>, ok))
        /\ es_indices' = IF ok
                         THEN [ es_indices EXCEPT ![media_type] = @ \ { old_suffix } ]
                         ELSE es_indices
        /\ fault' = IF ok THEN "" ELSE "delete-index"
        /\ IF ok THEN IngestReturns ELSE Raise("CalledProcessError") /\ UNCHANGED << ingested, replaced >>
    /\ UNCHANGED << run, locals, cache_cmds, sample, api_db, upstream, es_alias, cache >>

-----------------------------------------------------------------------------
(* Cache bust *)

cache_bust ==
    /\ pc = "cache_bust"
    /\ \E ok \in BOOLEAN :
        LET command == CacheBustCommand(media_type) IN
        /\ cache_cmds' = Append(cache_cmds, command)
        /\ cache' = IF ok THEN redis_cli(cache, command) ELSE cache
        /\ fault' = IF ok THEN "" ELSE "redis-cli"
        /\ IF ok THEN NextMedia("cache_bust", "done") ELSE Raise("DockerException")
    /\ UNCHANGED << run, locals, logs, sample, api_db, upstream, search >>

-----------------------------------------------------------------------------
(* The script is run again against the environment the last run left.      *)

run_again ==
    /\ pc \in { "done", "failed" }
    /\ run < MaxRuns
    /\ run' = run + 1
    /\ pc' = "run_migrations"
    /\ mi' = 1
    /\ err' = ""
    /\ fault' = ""
    /\ actual_providers' = {}
    /\ data' = NoData
    /\ suffix' = <<>>
    /\ retries' = 0
    /\ calls' = <<>>
    /\ ingested' = <<>>
    /\ replaced' = <<>>
    /\ cache_cmds' = <<>>
    /\ UNCHANGED << sample, api_db, upstream, search, cache >>

Next ==
    \/ run_migrations
    \/ create_users
    \/ backup_table
    \/ get_actual_providers
    \/ load_content_providers
    \/ copy_content_provider
    \/ load_sample_data_copy_table
    \/ load_sample_data_rows
    \/ create_audioset_view
    \/ ingest_load_test_data
    \/ ingest_stat
    \/ ingest_upstream
    \/ ingest_wait_for_index
    \/ ingest_promote
    \/ ingest_wait_for_alias
    \/ ingest_delete_index
    \/ cache_bust
    \/ run_again

Spec == Init /\ [][Next]_vars

-----------------------------------------------------------------------------
(* Properties of ingest().  calls is the list of the recipes the current   *)
(* (or the last) ingest call has run; its first entry is load-test-data.   *)

\* the media type of the ingest call that calls logs
IngestMedia == calls[1].argv[1]

IsAttemptCall(c) ==
    \/ c.recipe = "ingest-upstream"
    \/ c.recipe = "wait-for-index" /\ c.argv = << IndexName(IngestMedia, suffix) >>

\* positions of the failed ingest-upstream / wait-for-index calls up to n
FailedAttempts(n) == { j \in 1..n : IsAttemptCall(calls[j]) /\ ~calls[j].ok }

Invoked(recipe) == { j \in 1..Len(calls) : calls[j].recipe = recipe }

\* C1: promote is invoked with suffix s only right after an ingest-upstream
\* call for (M, s) and the wait-for-index call for M-s that followed it both
\* succeeded, and s is the suffix of every ingest-upstream call of the call.
C1_PromoteOnlyReadyIndex ==
    \A i \in Invoked("promote") :
        LET m == IngestMedia
            s == calls[i].argv[2]
        IN  /\ calls[i].argv = << m, s, m >>
            /\ i >= 3
            /\ calls[i - 1] = JustCall("wait-for-index", << IndexName(m, s) >>, TRUE)
            /\ calls[i - 2] = JustCall("ingest-upstream", << m, s >>, TRUE)
            /\ \A j \in Invoked("ingest-upstream") : calls[j].argv = << m, s >>

\* promote has been invoked in a call in which an earlier attempt failed
C1_Witness ==
    \E i \in Invoked("promote") : FailedAttempts(i) # {}

\* C2: for image, the first and the second failure of an attempt do not
\* raise, and when the third attempt succeeds the script goes on to promote
\* the new index.
C2_ThirdAttemptPromotes ==
    (calls # <<>> /\ IngestMedia = image) =>
        \A i \in 1..Len(calls) :
            /\ (i \in FailedAttempts(i) /\ Cardinality(FailedAttempts(i)) <= 2
                    /\ i = Len(calls))
               => (pc = "ingest_upstream" /\ err = "")
            /\ (calls[i] = JustCall("wait-for-index", << IndexName(image, suffix) >>, TRUE)
                    /\ Cardinality(FailedAttempts(i)) = 2)
               => IF i = Len(calls)
                  THEN pc = "promote" /\ err = ""
                  ELSE calls[i + 1].recipe = "promote"
                       /\ calls[i + 1].argv = << image, suffix, image >>

\* image: two attempts failed, the third succeeded, promote was invoked
C2_Witness ==
    /\ calls # <<>>
    /\ IngestMedia = image
    /\ \E i \in Invoked("promote") : Cardinality(FailedAttempts(i)) = 2

\* C3: for audio, the first failed attempt raises at once: it is the last
\* call of ingest, ingest-upstream has been invoked once, and no promote,
\* wait-for-index on the alias or delete-index follows.
C3_AudioRaisesAtOnce ==
    (calls # <<>> /\ IngestMedia = audio) =>
        \A i \in FailedAttempts(Len(calls)) :
            /\ i = Len(calls)
            /\ pc = "failed"
            /\ err = "CalledProcessError"
            /\ Cardinality(Invoked("ingest-upstream")) = 1
            /\ Invoked("promote") = {}
            /\ Invoked("delete-index") = {}
            /\ \A j \in Invoked("wait-for-index") : calls[j].argv # << audio >>

\* the attempt for audio has failed
C3_Witness ==
    /\ calls # <<>>
    /\ IngestMedia = audio
    /\ FailedAttempts(Len(calls)) # {}

\* the suffix stat recorded: alt_names without the leading "<media_type>-"
RecordedSuffix(d, m) == SubSeq(d.alt_names, Len(m) + 2, Len(d.alt_names))

\* C4: when stat reported an index M-s and promotion succeeded, ingest(M)
\* issues one delete-index call, and its suffix argument is s.
C4_DeletesRecordedSuffix ==
    /\ \A i \in Invoked("delete-index") :
           calls[i].argv = << IngestMedia, RecordedSuffix(data, IngestMedia) >>
    /\ Cardinality(Invoked("delete-index")) <= 1
    /\ (/\ calls # <<>>
        /\ data.exists
        /\ pc \notin { "failed", "delete_index" }
        /\ calls[Len(calls)].recipe \in { "wait-for-index", "delete-index" }
        /\ \E i \in Invoked("promote") : i >= Len(calls) - 2)
       => Cardinality(Invoked("delete-index")) = 1

\* C5: delete-index is invoked only when stat reported an index, and only
\* right after promote and the wait-for-index on the alias both succeeded;
\* until then the index stat reported is still there.
C5_DeleteOnlyAfterPromotion ==
    /\ \A i \in Invoked("delete-index") :
           LET m == IngestMedia IN
           /\ data.exists
           /\ i >= 3
           /\ calls[i - 1] = JustCall("wait-for-index", << m >>, TRUE)
           /\ calls[i - 2] = JustCall("promote", << m, suffix, m >>, TRUE)
    /\ (/\ calls # <<>>
        /\ data.exists
        /\ ~\E j \in 1..Len(calls) :
               calls[j] = JustCall("wait-for-index", << IngestMedia >>, TRUE))
       => /\ Invoked("delete-index") = {}
          /\ RecordedSuffix(data, IngestMedia) \in es_indices[IngestMedia]

\* delete-index has been invoked
C5_Witness == calls # <<>> /\ Invoked("delete-index") # {}

-----------------------------------------------------------------------------
(* Properties of the other phases *)

\* C6: backup_table(M) run when M_template is already there (a second run)
\* does not raise: unless the container or the connection fails, the script
\* fails with `relation "M_template" already exists`, the error is swallowed,
\* the script goes on, and the template table is left as it was.
C6_SecondBackupSwallowed ==
    [][ (pc = "backup_table" /\ template[media_type].table /\ fault' # "psql")
        => /\ fault' = "relation already exists"
           /\ pc' \in { "backup_table", "get_actual_providers" }
           /\ err' = ""
           /\ template' = template ]_vars

\* the second run has gone through backup_table with the table in place
C6_Witness ==
    /\ run = 2
    /\ pc = "get_actual_providers"
    /\ fault = "relation already exists"
    /\ \A m \in MediaSet : template[m].owned

\* rows of content_provider with the given identifier
ProviderRows(rows, identifier) ==
    { r \in rows : r.provider_identifier = identifier }

\* C7: a load_content_providers(P) that returns leaves one row for each
\* identifier of P, whatever the table held and however often P has been
\* loaded, and leaves the rows of other identifiers as they were.
C7_OneRowPerProvider ==
    [][ (pc = "load_content_providers" /\ pc' = "copy_table_upstream")
        => /\ \A p \in actual_providers :
                  Cardinality(ProviderRows(content_provider', p)) = 1
           /\ { r \in content_provider' : r.provider_identifier \notin actual_providers }
              = { r \in content_provider : r.provider_identifier \notin actual_providers }
      ]_vars

\* the providers have been loaded a second time, over rows of the first
\* load, next to a row of a provider the sample does not mention
C7_Witness ==
    /\ run = 2
    /\ pc = "copy_table_upstream"
    /\ \E r \in content_provider : r.created_on = 0
    /\ \A p \in actual_providers :
           \E r \in content_provider : r.provider_identifier = p /\ r.created_on = 2
    /\ next_pk > 4 + Cardinality(actual_providers)

\* the header of the sample file of m does not fit the destination table
HeaderMismatch(m) ==
    \/ ~(HeaderColumns(m) \subseteq (MediaTableColumns \cup extra_columns[m]))
    \/ ~(RequiredColumns \subseteq HeaderColumns(m))

\* the run is past load_sample_data(m)
SampleLoaded(m) ==
    \/ pc \in { "load_sample_data", "load_sample_data_rows" } /\ MEDIA_TYPES[mi] # m
          /\ \E i \in 1..(mi - 1) : MEDIA_TYPES[i] = m
    \/ pc \in { "create_audioset_view", "load_test_data", "stat", "ingest_upstream",
                "wait_for_index", "promote", "wait_for_alias", "delete_index",
                "cache_bust", "done" }

\* C8: when the header of the sample file of M omits a required column or
\* names a column M_view does not have, load_sample_data(M) never returns,
\* the run ends there with the error of the script, and M_view holds no row.
C8_HeaderMismatchFails ==
    \A m \in MediaSet :
        HeaderMismatch(m) =>
            /\ ~SampleLoaded(m)
            /\ \A t \in upstream.tables : t.name = ViewName(m) => t.rows = 0
            /\ (pc = "failed" /\ fault = "psql" /\ MEDIA_TYPES[mi] = m
                    /\ actual_providers # {} /\ HasTable(upstream.tables, ViewName(m)))
               => err = "DockerException"

\* \copy has been refused for a header that does not fit: the table is
\* there with its extra columns and without rows, and the run has failed
C8_Witness ==
    /\ pc = "failed"
    /\ err = "DockerException"
    /\ HeaderMismatch(media_type)
    /\ \E t \in upstream.tables :
           /\ t.name = ViewName(media_type)
           /\ extra_columns[media_type] \subseteq t.columns
           /\ t.rows = 0

\* C9: the commands sent to the cache are, in order, the deletion of
\* :1:sources-image and the deletion of :1:sources-audio, one each; no other
\* key leaves the cache; the first is sent only after ingest has returned
\* for every media type.
C9_CacheBustOneKeyEach ==
    /\ Len(cache_cmds) <= Len(MEDIA_TYPES)
    /\ \A i \in 1..Len(cache_cmds) :
           cache_cmds[i] = <<"d", "e", "l", " ">> \o SourcesKey(MEDIA_TYPES[i])
    /\ OtherKey \in cache
    /\ cache_cmds # <<>> => ingested = MEDIA_TYPES
    /\ pc = "done" => Len(cache_cmds) = Len(MEDIA_TYPES)

\* both keys have been deleted
C9_Witness ==
    /\ pc = "done"
    /\ cache = { OtherKey }

\* C10: a command that fails ends the run at once, unless it is the backup
\* script failing with `relation already exists`, or ingest-upstream or
\* wait-for-index on the new index failing with retries left.
C10_FailureEndsRun ==
    [][ fault' # ""
        => \/ pc' = "failed"
           \/ pc = "backup_table" /\ fault' = "relation already exists"
           \/ /\ pc \in { "ingest_upstream", "wait_for_index" }
              /\ retries > 0
              /\ pc' = "ingest_upstream" ]_vars

-----------------------------------------------------------------------------
(* Properties of the run as a whole *)

IngestPcs == { "load_test_data", "stat", "ingest_upstream", "wait_for_index",
               "promote", "wait_for_alias", "delete_index" }

\* the phase of __main__ the script is in (0: the run has failed)
Phase ==
    CASE pc = "run_migrations" -> 1
      [] pc = "create_users" -> 2
      [] pc = "backup_table" -> 3
      [] pc \in { "get_actual_providers", "load_content_providers" } -> 4
      [] pc = "copy_table_upstream" -> 5
      [] pc \in { "load_sample_data", "load_sample_data_rows" } -> 6
      [] pc = "create_audioset_view" -> 7
      [] pc \in IngestPcs -> 8
      [] pc = "cache_bust" -> 9
      [] pc = "done" -> 10
      [] OTHER -> 0

\* the sample file of m has been loaded into m_view, once
ViewLoaded(m) ==
    \E t \in upstream.tables : t.name = ViewName(m) /\ t.rows = 1

\* the index that ingest promoted for m in this run
PromotedNow(m) ==
    /\ es_alias[m] # NoIndex
    /\ es_alias[m] \in uuid4_hex(run)
    /\ es_alias[m] \in es_indices[m]

\* what the phases before phase k leave behind when they have completed
PhasesCompleted(k) ==
    /\ k > 1 => migrated
    /\ k > 2 => { "deploy", "continuous_integration" } \subseteq users
    /\ k > 3 => \A m \in MediaSet : template[m].table
    /\ k > 4 => \A p \in actual_providers :
                    Cardinality({ r \in content_provider : r.provider_identifier = p }) = 1
    /\ k > 5 => HasTable(upstream.tables, content_provider_table)
    /\ k > 6 => \A m \in MediaSet : ViewLoaded(m)
    /\ k > 7 => upstream.audioset_view
    /\ k > 8 => ingested = MEDIA_TYPES /\ \A m \in MediaSet : PromotedNow(m)

\* C11: the script is in a phase only when every phase before it has
\* completed successfully; the media types of a phase are handled in the
\* order of MEDIA_TYPES; ingest(audio) runs only after ingest(image) has
\* returned, with its index promoted.
C11_PhasesInOrder ==
    /\ Phase > 0 => PhasesCompleted(Phase)
    /\ (pc \in { "load_sample_data", "load_sample_data_rows" } /\ mi = 2)
       => ViewLoaded(image)
    /\ pc \in IngestPcs
       => /\ ingested = SubSeq(MEDIA_TYPES, 1, mi - 1)
          /\ mi = 2 => PromotedNow(image)
    /\ pc = "cache_bust" => Len(cache_cmds) = mi - 1

\* The data refresh on its own: the state in which the first run enters
\* ingest(image) when every earlier command has succeeded, and the steps of
\* ingest.  The script is one process that takes its next step whenever it
\* has one (every recipe it runs returns), hence the weak fairness.
IngestInit ==
    /\ pc = "load_test_data"
    /\ mi = 1
    /\ run = 1
    /\ err = ""
    /\ fault = ""
    /\ sample \in { f \in SampleFiles :
                      /\ UNION { f[m].provider : m \in MediaSet } \subseteq providers
                      /\ \A m \in MediaSet :
                             f[m].columns = { "identifier", "provider" } \cup extra_columns[m] }
    /\ actual_providers = UNION { sample[m].provider : m \in MediaSet }
    /\ data = NoData
    /\ suffix = <<>>
    /\ retries = 0
    /\ calls = <<>>
    /\ ingested = <<>>
    /\ replaced = <<>>
    /\ cache_cmds = <<>>
    /\ migrated = TRUE
    /\ users = { "deploy", "continuous_integration" }
    /\ template = [ m \in MediaSet |->
                      [ table |-> TRUE, seq |-> TRUE, dflt |-> TRUE, owned |-> TRUE ] ]
    /\ \E prior \in PriorProviders :
           content_provider = psql_providers(prior, actual_providers, 4, 1, 2).rows
    /\ next_pk = 4 + Cardinality(actual_providers)
    /\ upstream =
           [ tables |->
                 { [ name |-> content_provider_table,
                     columns |-> { "provider_identifier" }, rows |-> 0 ] } \cup
                 { [ name |-> ViewName(m),
                     columns |-> MediaTableColumns \cup extra_columns[m],
                     rows |-> 1 ] : m \in MediaSet },
             audioset_view |-> TRUE ]
    /\ es_alias \in PriorIndices
    /\ es_indices = [ m \in MediaSet |-> { es_alias[m] } \ { NoIndex } ]
    /\ cache = { SourcesKey(image), SourcesKey(audio), OtherKey }

IngestNext ==
    \/ ingest_load_test_data
    \/ ingest_stat
    \/ ingest_upstream
    \/ ingest_wait_for_index
    \/ ingest_promote
    \/ ingest_wait_for_alias
    \/ ingest_delete_index

IngestSpec == IngestInit /\ [][IngestNext]_vars /\ WF_vars(IngestNext)

\* C12: one ingest call invokes ingest-upstream at most 3 times for image
\* and once for audio; when the last attempt has failed too, it raises after
\* exactly 3 (image) or 1 (audio) invocations without having promoted.
C12_AttemptsBounded ==
    calls # <<>> =>
        LET most == IF IngestMedia = image THEN 3 ELSE 1
            n == Len(calls)
        IN  /\ Cardinality(Invoked("ingest-upstream")) <= most
            /\ Cardinality(FailedAttempts(n)) <= most
            /\ (pc = "failed" /\ n \in FailedAttempts(n))
               => /\ Cardinality(FailedAttempts(n)) = most
                  /\ Cardinality(Invoked("ingest-upstream")) = most
                  /\ Invoked("promote") = {}
                  /\ err = "CalledProcessError"
            /\ (n \in FailedAttempts(n) /\ Cardinality(FailedAttempts(n)) = most)
               => pc = "failed"

\* C12: and every ingest call ends: it returns or it raises.
C12_IngestTerminates ==
    /\ []C12_AttemptsBounded
    /\ (pc \in IngestPcs) ~> (pc \notin IngestPcs)

\* every attempt of an ingest call for image has failed
C12_Witness ==
    /\ calls # <<>>
    /\ IngestMedia = image
    /\ pc = "failed"
    /\ Cardinality(FailedAttempts(Len(calls))) = 3

\* C13: whenever backup_table returns without raising, in the first run or in
\* a later one, the template table of the media type exists with its own
\* sequence: created, set as the default of the id column, and owned by it.
C13_BackupInsertable ==
    [][ (pc = "backup_table" /\ pc' # "failed") =>
            /\ template'[media_type].table
            /\ template'[media_type].seq
            /\ template'[media_type].dflt
            /\ template'[media_type].owned ]_vars

\* the table M_view as load_sample_data(M) leaves it: the structure of the
\* template, the extra columns, and the rows of the sample file once
FreshView(m) ==
    [ name |-> ViewName(m),
      columns |-> MediaTableColumns \cup extra_columns[m],
      rows |-> 1 ]

\* C14: load_sample_data(M) is idempotent across runs.  Once a run is past
\* load_sample_data(M), in the first run or in a later one and whatever
\* ingestion did since, the only upstream table M_view is the fresh one
\* holding the rows of the sample file exactly once; and every call whose
\* DROP TABLE statement went through leaves no row of an earlier M_view.
C14_LoadIdempotent ==
    /\ [](\A m \in MediaSet :
            SampleLoaded(m) =>
                { t \in upstream.tables : t.name = ViewName(m) } = { FreshView(m) })
    /\ [][ (pc = "load_sample_data" /\ fault' # "DROP TABLE") =>
               \A t \in upstream'.tables : t.name = ViewName(media_type) => t.rows = 0 ]_vars

\* a later run has loaded both sample files again over the views that an
\* earlier run loaded and ingested
C14_Witness ==
    /\ run > 1
    /\ pc = "load_test_data"
    /\ \A m \in MediaSet :
           /\ FreshView(m) \in upstream.tables
           /\ es_alias[m] \in uuid4_hex(1)

\* ingest(audio) raised after ingest(image) returned, in the current run
AudioRaisedAfterImage == pc = "failed" /\ ingested = << image >>

\* what ingest(image) and the phases before it had done is still there
\* after ingest(audio) raised
EffectsKept ==
    AudioRaisedAfterImage =>
        /\ PromotedNow(image)
        /\ cache_cmds = <<>>
        /\ migrated
        /\ \A m \in MediaSet : template[m].table /\ ViewLoaded(m)
        /\ upstream.audioset_view

\* the index that stat reported for image before the promotion is gone
OldImageIndexDeleted ==
    (AudioRaisedAfterImage /\ replaced[1] # <<>>) =>
        RecordedSuffix([ alt_names |-> replaced[1] ], image) \notin es_indices[image]

\* no step of ingest(audio), and no step after it raised, touches the
\* databases, the image alias and indices, or the cache
AudioIngestFrame ==
    ((pc \in IngestPcs /\ mi = 2) \/ AudioRaisedAfterImage) =>
        /\ UNCHANGED << api_db, upstream, cache, cache_cmds >>
        /\ es_alias'[image] = es_alias[image]
        /\ es_indices'[image] = es_indices[image]

\* C15: nothing is rolled back.  When ingest(audio) raises after
\* ingest(image) returned, the image alias still points at the index promoted
\* in this run, the index it pointed at before stays deleted, the database
\* tables are as the earlier phases left them, and no cache-bust command has
\* been issued.
C15_NoRollback ==
    /\ [](EffectsKept /\ OldImageIndexDeleted)
    /\ [][AudioIngestFrame]_vars

\* C15 apart from the deletion of the old image index
C15_KeptApartFromOldIndex == []EffectsKept /\ [][AudioIngestFrame]_vars

\* the sample files name a provider that the catalog does not list
UnlistedProvider ==
    ~(UNION { sample[m].provider : m \in MediaSet } \subseteq providers)

\* C16: when the sample data names a provider absent from the catalog, the
\* run ends with KeyError at the lookup, before load_content_providers sends
\* a statement: in every run the content_provider table keeps its rows and
\* its key sequence, nothing is created upstream, no recipe is invoked, the
\* aliases, indices and cache are untouched and no later phase is entered;
\* the migrations, the users and the backup tables of the run are in place
\* when it ends.
C16_UnlistedProviderAborts ==
    /\ [](UnlistedProvider =>
            /\ pc \in { "run_migrations", "create_users", "backup_table",
                         "get_actual_providers", "failed" }
            /\ content_provider \in PriorProviders
            /\ next_pk = 4
            /\ upstream = EmptyUpstream
            /\ calls = <<>>
            /\ ingested = <<>>
            /\ cache_cmds = <<>>
            /\ es_alias \in PriorIndices
            /\ es_indices = [ m \in MediaSet |-> { es_alias[m] } \ { NoIndex } ]
            /\ cache = { SourcesKey(image), SourcesKey(audio), OtherKey }
            /\ (err = "KeyError" =>
                   /\ pc = "failed"
                   /\ migrated
                   /\ { "deploy", "continuous_integration" } \subseteq users
                   /\ \A m \in MediaSet : template[m].table))
    /\ [][ (UnlistedProvider /\ pc = "get_actual_providers") =>
               /\ pc' = "failed"
               /\ err' = "KeyError"
               /\ UNCHANGED << api_db, upstream, search, cache >> ]_vars

\* a run ended with KeyError at the provider lookup
C16_Witness ==
    /\ UnlistedProvider
    /\ pc = "failed"
    /\ err = "KeyError"
    /\ migrated
    /\ content_provider # {}

====
